---------------------------- MODULE Spec2Model ----------------------------
(***************************************************************************)
(* Timer heartbeat validation and streak reconciliation of the PWA focus   *)
(* timer (src/app/api/mantra/route.ts, POST / completeTimer /              *)
(* updateStreak).                                                          *)
(*                                                                         *)
(* The two Supabase tables are sets of rows.  Every `await` of the handler *)
(* is a point where another request or the clock may run, so the handler   *)
(* is cut into one action per database round trip; the synchronous code    *)
(* between two awaits reads the clock once.                                *)
(*                                                                         *)
(* Times are milliseconds since the epoch, dates are UTC day numbers       *)
(* (toISOString().split('T')[0] of a time t is the day t \div 86400000).   *)
(*                                                                         *)
(* Spec is the server under concurrent requests, SpecPair two runs of it   *)
(* side by side, SpecRule updateStreak alone, SpecFail the server with     *)
(* failing calls in updateStreak, SpecAgent the service worker of the      *)
(* client (src/public/sw.js), SpecPage the timer page (README.md) with the *)
(* worker it posts to.                                                     *)
(***************************************************************************)
EXTENDS Integers, FiniteSets, Sequences, TLC

\* ---- program constants -------------------------------------------------
DayMs == 86400000
DriftLimit == 5000
MsPerSecond == 1000

\* SQL NULL / a missing JSON value in a numeric column
NULL == -1

\* ---- bounds of the model -----------------------------------------------
MaxTicks == 2
MaxSessions == 2
MaxRequests == 3

\* authenticated identities; the ones that start sessions and that
\* interleaved requests name as userId
Users == {"u1", "u2"}
Owners == {"u1"}
NoCaller == "anonymous"
\* the handler invocations that can be in flight together
Reqs == {1, 2}
\* session lengths in seconds, clock advances and client reports in ms
Durations == {5}
ClockSteps == {5000, DayMs}
ClientElapsed == {-1, 5000}
Day0 == 3
Now0 == Day0 * DayMs - 10000
\* request fields the handler parses and never reads
SessionIds == {1}
ClientTimes == {0}

VARIABLES
  now,                 \* Date.now() of the server
  ticks,               \* clock advances so far
  timer_sessions,      \* table timer_sessions, a set of rows
  streaks,             \* table streaks, a set of rows
  req,                 \* per invocation of POST: position and locals
  nreq,                \* heartbeat requests received so far
  completeTimerCalls,  \* per session id, the calls of completeTimer
  twin,                \* a second run of the same server (two-run claims)
  agent                \* the service worker of the client (sw.js)

vars == <<now, ticks, timer_sessions, streaks, req, nreq, completeTimerCalls,
          twin, agent>>

\* ---- pure helpers ------------------------------------------------------
Abs(x) == IF x < 0 THEN -x ELSE x

Max(a, b) == IF a >= b THEN a ELSE b

\* new Date(t).toISOString().split('T')[0]
DateOf(t) == t \div DayMs

\* (timerSession.heartbeat_count || 0)
OrZero(x) == IF x = NULL THEN 0 ELSE x

NoStreak == [user_id |-> "none"]

Idle == [pc |-> "idle"]

\* ---- timer_sessions table ----------------------------------------------
NewSession(id, u, t, d) ==
  [id |-> id, user_id |-> u, start_time |-> t, duration |-> d,
   completed |-> FALSE, validated |-> FALSE, end_time |-> NULL,
   suspicious |-> FALSE, drift_amount |-> NULL,
   last_heartbeat |-> NULL, heartbeat_count |-> NULL]

Uncompleted(table, u) == {s \in table : s.user_id = u /\ ~s.completed}

\* the select without .eq('completed', false)
SelectLatestSession(table, u) ==
  {s \in table : s.user_id = u /\
     \A o \in table : o.user_id = u => o.start_time <= s.start_time}

\* the select with a further .eq('suspicious', false)
SelectUnflagged(table, u) ==
  {s \in {x \in Uncompleted(table, u) : ~x.suspicious} :
     \A o \in {x \in Uncompleted(table, u) : ~x.suspicious} :
       o.start_time <= s.start_time}

\* .eq('user_id').eq('completed', false).order('start_time', desc).limit(1)
SelectSession(table, u) ==
  {s \in Uncompleted(table, u) :
     \A o \in Uncompleted(table, u) : o.start_time <= s.start_time}

\* the update written as one status column: flagging overwrites completed
UpdateSuspiciousStatus(table, id, drift) ==
  {IF s.id = id THEN [s EXCEPT !.suspicious = TRUE, !.drift_amount = drift,
                               !.completed = FALSE]
   ELSE s : s \in table}

\* the update that also counts the drifting heartbeat
UpdateSuspiciousCounted(table, id, drift) ==
  {IF s.id = id THEN [s EXCEPT !.suspicious = TRUE, !.drift_amount = drift,
                               !.heartbeat_count = OrZero(@) + 1]
   ELSE s : s \in table}

\* the update that keeps the largest drift seen
UpdateSuspiciousMax(table, id, drift) ==
  {IF s.id = id THEN [s EXCEPT !.suspicious = TRUE,
                               !.drift_amount = Max(@, drift)]
   ELSE s : s \in table}

\* the update without the drift_amount column
UpdateSuspiciousOnly(table, id, drift) ==
  {IF s.id = id THEN [s EXCEPT !.suspicious = TRUE] ELSE s : s \in table}

UpdateSuspicious(table, id, drift) ==
  {IF s.id = id THEN [s EXCEPT !.suspicious = TRUE, !.drift_amount = drift]
   ELSE s : s \in table}

UpdateHeartbeat(table, id, t, count) ==
  {IF s.id = id THEN [s EXCEPT !.last_heartbeat = t, !.heartbeat_count = count]
   ELSE s : s \in table}

\* the update with the time written to start_time in place of end_time
UpdateCompletedStart(table, id, t) ==
  {IF s.id = id THEN [s EXCEPT !.completed = TRUE, !.start_time = t,
                               !.validated = TRUE]
   ELSE s : s \in table}

UpdateCompleted(table, id, t) ==
  {IF s.id = id THEN [s EXCEPT !.completed = TRUE, !.end_time = t,
                               !.validated = TRUE]
   ELSE s : s \in table}

\* ---- streaks table -----------------------------------------------------
StreakRows(table, u) == {k \in table : k.user_id = u}

\* user_id is the primary key: an insert for a user who has a row fails
InsertStreak(table, u, day) ==
  IF StreakRows(table, u) # {} THEN table
  ELSE table \cup {[user_id |-> u, current_streak |-> 1,
                    longest_streak |-> 1, last_completed |-> day]}

\* the update with longest_streak left as it was read
ContinueStreakNoMax(table, u, newStreak, longest, day) ==
  {IF k.user_id = u
   THEN [k EXCEPT !.current_streak = newStreak,
                  !.longest_streak = longest,
                  !.last_completed = day]
   ELSE k : k \in table}

ContinueStreak(table, u, newStreak, longest, day) ==
  {IF k.user_id = u
   THEN [k EXCEPT !.current_streak = newStreak,
                  !.longest_streak = Max(newStreak, longest),
                  !.last_completed = day]
   ELSE k : k \in table}

\* the update with longest_streak written as well
ResetStreakLongest(table, u, day) ==
  {IF k.user_id = u
   THEN [k EXCEPT !.current_streak = 1, !.longest_streak = 1,
                  !.last_completed = day]
   ELSE k : k \in table}

ResetStreak(table, u, day) ==
  {IF k.user_id = u
   THEN [k EXCEPT !.current_streak = 1, !.last_completed = day]
   ELSE k : k \in table}

\* the chain without its last condition: every row that does not continue
\* the streak resets it
StreakBranchNoToday(streak, today, yesterday) ==
  IF streak = NoStreak THEN "insert"
  ELSE IF streak.last_completed = yesterday THEN "continue"
  ELSE "reset"

\* the branch updateStreak takes for the row it read
StreakBranch(streak, today, yesterday) ==
  IF streak = NoStreak THEN "insert"
  ELSE IF streak.last_completed = yesterday THEN "continue"
  ELSE IF streak.last_completed # today THEN "reset"
  ELSE "none"

StreakWritten(table, u, streak, today, yesterday) ==
  CASE StreakBranch(streak, today, yesterday) = "insert" ->
         InsertStreak(table, u, today)
    [] StreakBranch(streak, today, yesterday) = "continue" ->
         ContinueStreak(table, u, streak.current_streak + 1,
                        streak.longest_streak, today)
    [] StreakBranch(streak, today, yesterday) = "reset" ->
         ResetStreak(table, u, today)
    [] OTHER -> table

\* ---- responses ---------------------------------------------------------
ErrorResponse(msg, code) == [kind |-> "error", error |-> msg, http |-> code]

WarningResponse(t, drift) ==
  [kind |-> "warning", warning |-> "Time drift detected",
   serverTime |-> t, drift |-> drift]

CompletedResponse(elapsed) ==
  [kind |-> "completed", status |-> "completed", elapsed |-> elapsed]

ActiveResponse(t, elapsed, remaining) ==
  [kind |-> "active", status |-> "active", serverTime |-> t,
   elapsed |-> elapsed, remaining |-> remaining]

\* ---- decisions of the handler -----------------------------------------
ServerElapsed(s, t) == t - s.start_time

TimeDrift(serverElapsed, elapsed) == Abs(serverElapsed - elapsed)

\* the comparison with >= in place of >
DriftedAtLimit(timeDrift) == timeDrift >= DriftLimit

\* if (timeDrift > 5000)
Drifted(timeDrift) == timeDrift > DriftLimit

\* the comparison on the client's elapsed time
CompletionDueClient(s, serverElapsed, elapsed) ==
  elapsed >= s.duration * MsPerSecond

\* the comparison with > in place of >=
CompletionDuePast(s, serverElapsed, elapsed) ==
  serverElapsed > s.duration * MsPerSecond

\* if (serverElapsed >= timerSession.duration * 1000); the client's elapsed
\* is in scope at this line and is not used
CompletionDue(s, serverElapsed, elapsed) ==
  serverElapsed >= s.duration * MsPerSecond

\* the remaining time without the conversion of the duration to ms
RemainingSeconds(s, serverElapsed) == s.duration - serverElapsed

Remaining(s, serverElapsed) == s.duration * MsPerSecond - serverElapsed

\* the check with the comparison of the ids left out: !session only
UnauthorizedNoSession(caller, userId) == caller = NoCaller

Unauthorized(caller, userId) == caller = NoCaller \/ caller # userId

\* ---- the service worker (sw.js) ------------------------------------------
MaxStarts == 2
MaxInflight == 2
MaxSyncs == 2
MaxFlips == 2
MaxRestarts == 1

\* durations the timer page starts a session with, in seconds
TimerSeconds == {5, 10}

\* JavaScript values the worker computes with
Undefined == [type |-> "undefined"]

NaN == [type |-> "NaN"]

Number(n) == [type |-> "number", value |-> n]

\* obj.name: undefined unless the object has the property
Prop(obj, name) == IF name \in DOMAIN obj THEN obj[name] ELSE Undefined

\* !v
Falsy(v) ==
  \/ v.type \in {"undefined", "NaN"}
  \/ v.type = "number" /\ v.value = 0

\* a - b
Minus(a, b) ==
  IF a.type = "number" /\ b.type = "number"
  THEN Number(a.value - b.value) ELSE NaN

\* a >= b: false as soon as a side is NaN or undefined
GreaterEq(a, b) ==
  a.type = "number" /\ b.type = "number" /\ a.value >= b.value

\* JSON.stringify of a property value: NaN becomes null
Json(v) == IF v.type = "number" THEN v.value ELSE NULL

\* the object store holds no record under 'current'
NoRecord == [id |-> "none"]

\* saveTimerState: the record put under 'current'
TimerRecord(data, t) ==
  [id |-> "current", startTime |-> data.startTime,
   duration |-> data.duration, serverTime |-> data.serverTime,
   userId |-> data.userId, lastHeartbeat |-> t]

\* What awaiting the value of store.get('current') yields. With the
\* IndexedDB of the browser it is the request object itself, whatever the
\* store holds, its result not read. Where the requests of the store are
\* promises, the interface the functions are written against (they also
\* return transaction.complete), it is the record, or undefined. The
\* storage mechanism is outside the specification; both are followed.
ReadModes == {"request", "record"}

\* the record as the object a read resolves to
RecordObject(rec) ==
  [type |-> "object", id |-> rec.id, startTime |-> Number(rec.startTime),
   duration |-> Number(rec.duration), userId |-> rec.userId]

\* getTimerState, awaited
getTimerState(a) ==
  IF a.reads = "request" THEN [type |-> "object", readyState |-> "pending"]
  ELSE IF a.store = NoRecord THEN Undefined
  ELSE RecordObject(a.store)

\* ---- the timer page (README.md, app/timer/page.tsx) -----------------------
MaxReloads == 1

\* durations the page offers, in minutes, and the seconds that pass between
\* two looks at its countdown
PageMinutes == {1, 2}
PageSteps == {30}

\* localStorage without the item 'timerState'
NoItem == [startTime |-> 0, duration |-> 0, isRunning |-> FALSE]

\* the page as mounted: useState and useRef initial values, with the first
\* duration offered in place of 25 minutes
NoPage ==
  [duration |-> 1,              \* minutes
   timeLeft |-> 0,              \* seconds
   isRunning |-> FALSE,
   workerRef |-> FALSE,         \* workerRef.current is the active worker
   timerState |-> NoItem,       \* localStorage item 'timerState'
   reloads |-> 0]               \* page reloads so far

\* the worker as installed: no record, no interval, nothing in flight
NoAgent ==
  [reads |-> "request",         \* what a read of the store resolves to
   store |-> NoRecord,          \* IndexedDB, object store 'activeTimers'
   heartbeatInterval |-> NULL,  \* the handle in the variable
   intervals |-> {},            \* setInterval handles not yet cleared
   started |-> 0,               \* START_TIMER messages handled
   stopped |-> FALSE,           \* the last message handled was STOP_TIMER
   requests |-> <<>>,           \* heartbeat fetches in flight
   online |-> TRUE,             \* the network is available
   flips |-> 0,                 \* changes of the network so far
   syncs |-> 0,                 \* sync events handled
   waitUntil |-> "none",        \* how the last sync handler's promise settled
   completions |-> 0,           \* POSTs of /api/timer/complete answered
   accepted |-> 0,              \* of these, answered with success
   restarts |-> 0,              \* times the worker was killed and resumed
   page |-> NoPage]             \* the timer page that posts the messages

\* ---- initial state -----------------------------------------------------
InitStreaks ==
  { {},
    {[user_id |-> "u1", current_streak |-> 1, longest_streak |-> 1,
      last_completed |-> Day0 - 2]} }

NoTwin == [timer_sessions |-> {}, streaks |-> {}, sameClass |-> TRUE,
           differed |-> FALSE]

Init ==
  /\ now = Now0
  /\ ticks = 0
  /\ timer_sessions = {}
  /\ streaks \in InitStreaks
  /\ req = [r \in Reqs |-> Idle]
  /\ nreq = 0
  /\ completeTimerCalls = [i \in 1..MaxSessions |-> 0]
  /\ twin = NoTwin
  /\ agent = NULL    \* the client is outside this specification

\* ---- environment -------------------------------------------------------
Tick ==
  /\ ticks < MaxTicks
  /\ \E d \in ClockSteps : now' = now + d
  /\ ticks' = ticks + 1
  /\ UNCHANGED <<timer_sessions, streaks, req, nreq, completeTimerCalls, twin, agent>>

\* a user starts a session: at most one uncompleted session per user, and
\* the start time is the server's
StartSession(u, d) ==
  /\ Cardinality(timer_sessions) < MaxSessions
  /\ Uncompleted(timer_sessions, u) = {}
  /\ timer_sessions' = timer_sessions \cup
       {NewSession(Cardinality(timer_sessions) + 1, u, now, d)}
  /\ UNCHANGED <<now, ticks, streaks, req, nreq, completeTimerCalls, twin, agent>>

\* ---- POST /api/timer/heartbeat ----------------------------------------
\* every session of user u is completed, and there is one
AllCompleted(u) ==
  /\ Uncompleted(timer_sessions, u) = {}
  /\ \E s \in timer_sessions : s.user_id = u

\* book-keeping of an invocation: how many requests in a row, the one it
\* takes now included, user u has sent past the authentication check while
\* every session of u was completed
LateCount(r, u) ==
  IF AllCompleted(u)
  THEN 1 + (IF req[r].pc = "done" /\ req[r].userId = u
            THEN req[r].late ELSE 0)
  ELSE 0

\* an invocation that has sent its response
Done(u, resp, late) ==
  [pc |-> "done", userId |-> u, resp |-> resp, late |-> late]

\* the invocation that takes the next request: the first free one
Free(r) ==
  /\ req[r].pc \in {"idle", "done"}
  /\ \A q \in Reqs : q < r => req[q].pc \notin {"idle", "done"}

\* request.json(), the authentication check and the select on
\* timer_sessions; sessionId and clientTime are parsed and never read
Begin(r, userId, caller, sessionId, elapsed, clientTime) ==
  /\ Free(r)
  /\ nreq < MaxRequests
  /\ nreq' = nreq + 1
  /\ IF Unauthorized(caller, userId)
     THEN req' = [req EXCEPT ![r] =
                    Done(userId, ErrorResponse("Unauthorized", 401), 0)]
     ELSE IF SelectSession(timer_sessions, userId) = {}
     THEN req' = [req EXCEPT ![r] =
                    Done(userId,
                         ErrorResponse("No active timer session", 404),
                         LateCount(r, userId))]
     ELSE \E s \in SelectSession(timer_sessions, userId) :
            req' = [req EXCEPT ![r] =
              [pc |-> "validate", userId |-> userId, elapsed |-> elapsed,
               timerSession |-> s, late |-> LateCount(r, userId)]]
  /\ UNCHANGED <<now, ticks, timer_sessions, streaks, completeTimerCalls, twin, agent>>

\* serverElapsed, timeDrift and the branch on the drift; the arguments of
\* the update that follows are evaluated here
Validate(r) ==
  /\ req[r].pc = "validate"
  /\ LET s == req[r].timerSession
         serverElapsed == ServerElapsed(s, now)
         timeDrift == TimeDrift(serverElapsed, req[r].elapsed)
     IN req' = [req EXCEPT ![r] =
          [pc |-> IF Drifted(timeDrift) THEN "flag" ELSE "heartbeat",
           userId |-> req[r].userId, elapsed |-> req[r].elapsed,
           timerSession |-> s, serverElapsed |-> serverElapsed,
           timeDrift |-> timeDrift, last_heartbeat |-> now,
           late |-> req[r].late]]
  /\ UNCHANGED <<now, ticks, timer_sessions, streaks, nreq,
                 completeTimerCalls, twin, agent>>

\* update({suspicious: true, drift_amount: timeDrift})
Flag(r) ==
  /\ req[r].pc = "flag"
  /\ timer_sessions' = UpdateSuspicious(timer_sessions,
                          req[r].timerSession.id, req[r].timeDrift)
  /\ req' = [req EXCEPT ![r].pc = "warn"]
  /\ UNCHANGED <<now, ticks, streaks, nreq, completeTimerCalls, twin, agent>>

\* the drift warning, with Date.now() read after the update returned
Warn(r) ==
  /\ req[r].pc = "warn"
  /\ req' = [req EXCEPT ![r] =
       Done(req[r].userId, WarningResponse(now, req[r].timeDrift),
            req[r].late)]
  /\ UNCHANGED <<now, ticks, timer_sessions, streaks, nreq,
                 completeTimerCalls, twin, agent>>

\* update({last_heartbeat, heartbeat_count})
Heartbeat(r) ==
  /\ req[r].pc = "heartbeat"
  /\ timer_sessions' = UpdateHeartbeat(timer_sessions,
        req[r].timerSession.id, req[r].last_heartbeat,
        OrZero(req[r].timerSession.heartbeat_count) + 1)
  /\ req' = [req EXCEPT ![r].pc = "check"]
  /\ UNCHANGED <<now, ticks, streaks, nreq, completeTimerCalls, twin, agent>>

\* the completion check; on completion completeTimer is entered and the
\* arguments of its update are evaluated
Check(r) ==
  /\ req[r].pc = "check"
  /\ LET s == req[r].timerSession IN
     IF CompletionDue(s, req[r].serverElapsed, req[r].elapsed)
     THEN /\ req' = [req EXCEPT ![r] =
               [pc |-> "complete", end_time |-> now] @@ @]
          /\ completeTimerCalls' =
               [completeTimerCalls EXCEPT ![s.id] = @ + 1]
     ELSE /\ req' = [req EXCEPT ![r] =
               Done(req[r].userId,
                    ActiveResponse(now, req[r].serverElapsed,
                                   Remaining(s, req[r].serverElapsed)),
                    req[r].late)]
          /\ UNCHANGED completeTimerCalls
  /\ UNCHANGED <<now, ticks, timer_sessions, streaks, nreq, twin, agent>>

\* completeTimer: update({completed: true, end_time, validated: true})
Complete(r) ==
  /\ req[r].pc = "complete"
  /\ timer_sessions' = UpdateCompleted(timer_sessions,
                          req[r].timerSession.id, req[r].end_time)
  /\ req' = [req EXCEPT ![r].pc = "streakSelect"]
  /\ UNCHANGED <<now, ticks, streaks, nreq, completeTimerCalls, twin, agent>>

\* .single() on the rows of a user
SingleStreak(table, u) ==
  IF StreakRows(table, u) = {} THEN {NoStreak} ELSE StreakRows(table, u)

\* updateStreak: the select on streaks
StreakSelect(r) ==
  /\ req[r].pc = "streakSelect"
  /\ \E k \in SingleStreak(streaks, req[r].userId) :
       req' = [req EXCEPT ![r] = [pc |-> "streakDates", streak |-> k] @@ @]
  /\ UNCHANGED <<now, ticks, timer_sessions, streaks, nreq,
                 completeTimerCalls, twin, agent>>

\* updateStreak: today and yesterday
StreakDates(r) ==
  /\ req[r].pc = "streakDates"
  /\ req' = [req EXCEPT ![r] =
       [pc |-> "streakWrite", today |-> DateOf(now),
        yesterday |-> DateOf(now - DayMs)] @@ @]
  /\ UNCHANGED <<now, ticks, timer_sessions, streaks, nreq,
                 completeTimerCalls, twin, agent>>

\* updateStreak: the insert or update, then the completed response
StreakWrite(r) ==
  /\ req[r].pc = "streakWrite"
  /\ streaks' = StreakWritten(streaks, req[r].userId, req[r].streak,
                              req[r].today, req[r].yesterday)
  /\ req' = [req EXCEPT ![r] =
       Done(req[r].userId, CompletedResponse(req[r].serverElapsed),
            req[r].late)]
  /\ UNCHANGED <<now, ticks, timer_sessions, nreq, completeTimerCalls, twin, agent>>

Next ==
  \/ Tick
  \/ \E u \in Owners, d \in Durations : StartSession(u, d)
  \/ \E r \in Reqs, u \in Owners, c \in Users \cup {NoCaller},
        i \in SessionIds, e \in ClientElapsed, t \in ClientTimes :
       Begin(r, u, c, i, e, t)
  \/ \E r \in Reqs : Validate(r)
  \/ \E r \in Reqs : Flag(r)
  \/ \E r \in Reqs : Warn(r)
  \/ \E r \in Reqs : Heartbeat(r)
  \/ \E r \in Reqs : Check(r)
  \/ \E r \in Reqs : Complete(r)
  \/ \E r \in Reqs : StreakSelect(r)
  \/ \E r \in Reqs : StreakDates(r)
  \/ \E r \in Reqs : StreakWrite(r)

Spec == Init /\ [][Next]_vars

\* ---- two runs of the server side by side --------------------------------
\* One request handled from its first line to its response with no other
\* request in between, at server time t: the tables it leaves and the
\* response.
Handle(table, stable, userId, caller, elapsed, t) ==
  IF Unauthorized(caller, userId)
  THEN [timer_sessions |-> table, streaks |-> stable,
        resp |-> ErrorResponse("Unauthorized", 401)]
  ELSE IF SelectSession(table, userId) = {}
  THEN [timer_sessions |-> table, streaks |-> stable,
        resp |-> ErrorResponse("No active timer session", 404)]
  ELSE
    LET s == CHOOSE x \in SelectSession(table, userId) : TRUE
        serverElapsed == ServerElapsed(s, t)
        timeDrift == TimeDrift(serverElapsed, elapsed)
        beaten == UpdateHeartbeat(table, s.id, t,
                                  OrZero(s.heartbeat_count) + 1)
        streak == CHOOSE k \in SingleStreak(stable, userId) : TRUE
    IN IF Drifted(timeDrift)
       THEN [timer_sessions |-> UpdateSuspicious(table, s.id, timeDrift),
             streaks |-> stable, resp |-> WarningResponse(t, timeDrift)]
       ELSE IF CompletionDue(s, serverElapsed, elapsed)
       THEN [timer_sessions |-> UpdateCompleted(beaten, s.id, t),
             streaks |-> StreakWritten(stable, userId, streak, DateOf(t),
                                       DateOf(t - DayMs)),
             resp |-> CompletedResponse(serverElapsed)]
       ELSE [timer_sessions |-> beaten, streaks |-> stable,
             resp |-> ActiveResponse(t, serverElapsed,
                                     Remaining(s, serverElapsed))]

InitPair ==
  /\ now = Now0
  /\ ticks = 0
  /\ timer_sessions = {}
  /\ streaks \in InitStreaks
  /\ req = [r \in Reqs |-> Idle]
  /\ nreq = 0
  /\ completeTimerCalls = [i \in 1..MaxSessions |-> 0]
  /\ twin = [NoTwin EXCEPT !.streaks = streaks]
  /\ agent = NULL    \* the client is outside this specification

\* the same user starts the same session in both runs
PairStart(u, d) ==
  /\ Cardinality(timer_sessions) < MaxSessions + 1
  /\ Cardinality(twin.timer_sessions) = Cardinality(timer_sessions)
  /\ Uncompleted(timer_sessions, u) = {}
  /\ Uncompleted(twin.timer_sessions, u) = {}
  /\ LET s == NewSession(Cardinality(timer_sessions) + 1, u, now, d) IN
       /\ timer_sessions' = timer_sessions \cup {s}
       /\ twin' = [twin EXCEPT !.timer_sessions = @ \cup {s}]
  /\ UNCHANGED <<now, ticks, streaks, req, nreq, completeTimerCalls, agent>>

\* the same heartbeat at the same server time in both runs, but for the
\* elapsed time the client reports
PairHeartbeat(userId, caller, elapsedA, elapsedB) ==
  /\ nreq < MaxRequests + 1
  /\ nreq' = nreq + 1
  /\ LET a == Handle(timer_sessions, streaks, userId, caller, elapsedA, now)
         b == Handle(twin.timer_sessions, twin.streaks, userId, caller,
                     elapsedB, now)
     IN /\ timer_sessions' = a.timer_sessions
        /\ streaks' = a.streaks
        /\ twin' = [timer_sessions |-> b.timer_sessions,
                    streaks |-> b.streaks,
                    sameClass |-> /\ twin.sameClass
                                  /\ (a.resp.kind = "warning")
                                       = (b.resp.kind = "warning"),
                    differed |-> twin.differed \/ elapsedA # elapsedB]
  /\ UNCHANGED <<now, ticks, req, completeTimerCalls, agent>>

NextPair ==
  \/ Tick
  \/ \E u \in Owners, d \in Durations : PairStart(u, d)
  \/ \E u \in Users, c \in Users \cup {NoCaller},
        ea \in ClientElapsed, eb \in ClientElapsed :
       PairHeartbeat(u, c, ea, eb)

SpecPair == InitPair /\ [][NextPair]_vars

\* ---- updateStreak alone ------------------------------------------------
\* The streak rows updateStreak may find: any row with longest_streak >=
\* current_streak >= 1, last completed from three days before the first
\* day of the model to one day after it.
RuleStreaks ==
  { {} } \cup
  { {k} : k \in
      {x \in [user_id : Owners, current_streak : 1..2,
              longest_streak : 1..3, last_completed : (Day0 - 4)..Day0] :
         x.longest_streak >= x.current_streak} }

InitRule ==
  /\ now = Now0
  /\ ticks = 0
  /\ timer_sessions = {}
  /\ streaks \in RuleStreaks
  /\ req = [r \in Reqs |-> Idle]
  /\ nreq = 0
  /\ completeTimerCalls = [i \in 1..MaxSessions |-> 0]
  /\ twin = NoTwin
  /\ agent = NULL    \* the client is outside this specification

\* updateStreak from its select to its write with no other request in
\* between, at server time now
updateStreak(userId) ==
  /\ nreq < MaxRequests
  /\ nreq' = nreq + 1
  /\ \E streak \in SingleStreak(streaks, userId) :
       streaks' = StreakWritten(streaks, userId, streak, DateOf(now),
                                DateOf(now - DayMs))
  /\ UNCHANGED <<now, ticks, timer_sessions, req, completeTimerCalls, twin, agent>>

NextRule ==
  \/ Tick
  \/ \E u \in Owners : updateStreak(u)

SpecRule == InitRule /\ [][NextRule]_vars

\* ---- properties --------------------------------------------------------
Row(table, id) == CHOOSE s \in table : s.id = id

\* invocation r takes its next step
Steps(r, from) == req[r].pc = from /\ req'[r] # req[r]

\* invocation r receives a request in this step
Began(r) == nreq' = nreq + 1 /\ Free(r)

CompletionPath == {"complete", "streakSelect", "streakDates", "streakWrite"}

\* C1: for every interleaving of heartbeats for one session, the completion
\* path (mark Completed, then the streak update) is run at most once for
\* that session.
C1_CompletesOnce ==
  \A i \in DOMAIN completeTimerCalls : completeTimerCalls[i] <= 1

\* C2: the streak update is atomic per user: each write of updateStreak
\* for a user who has a row leaves the table as the whole update, run on
\* the row as it is at the write, would leave it.
C2_StreakAtomic ==
  [][\A r \in Reqs :
       (Steps(r, "streakWrite") /\ req[r].streak # NoStreak)
       => \E k \in SingleStreak(streaks, req[r].userId) :
            streaks' = StreakWritten(streaks, req[r].userId, k,
                                     req[r].today, req[r].yesterday)]_vars

CompletedIds(table) == {s.id : s \in {x \in table : x.completed}}

C4_DriftWarning ==
  [][\A r \in Reqs :
       /\ (Steps(r, "validate") /\
           Abs((now - req[r].timerSession.start_time) - req[r].elapsed) > 5000)
          => /\ req'[r].pc = "flag"
             /\ req'[r].timeDrift =
                  Abs((now - req[r].timerSession.start_time) - req[r].elapsed)
       /\ Steps(r, "flag")
          => /\ req'[r].pc = "warn"
             /\ Row(timer_sessions', req[r].timerSession.id).suspicious
             /\ Row(timer_sessions', req[r].timerSession.id).drift_amount
                  = req[r].timeDrift
             /\ \A s \in timer_sessions :
                  Row(timer_sessions', s.id).completed = s.completed
             /\ UNCHANGED <<streaks, completeTimerCalls>>
       /\ Steps(r, "warn")
          => /\ req'[r].pc = "done"
             /\ req'[r].resp.kind = "warning"
             /\ req'[r].resp.serverTime = now
             /\ req'[r].resp.drift = req[r].timeDrift
             /\ UNCHANGED <<timer_sessions, streaks, completeTimerCalls>>
    ]_vars

C4_Witness ==
  \E r \in Reqs :
    /\ req[r].pc = "warn"
    /\ req[r].serverElapsed >= req[r].timerSession.duration * 1000
    /\ req[r].timeDrift = 5001
    /\ \E s \in timer_sessions :
         /\ s.id = req[r].timerSession.id
         /\ s.suspicious
         /\ s.drift_amount = 5001
         /\ ~s.completed

\* C5: after a heartbeat whose drift is at most 5000 ms the session is not
\* flagged suspicious, also when an earlier heartbeat had flagged it (the
\* flag is in the row the heartbeat selected).
C5_ClearedInTolerance ==
  [][\A r \in Reqs :
       (Steps(r, "heartbeat") /\ req[r].timerSession.suspicious)
       => ~Row(timer_sessions', req[r].timerSession.id).suspicious]_vars

\* C5 (amended): a heartbeat whose drift is at most 5000 ms (5000 included)
\* is not treated as drift and leaves the suspicious flag of every session
\* as it was: unflagged stays unflagged, flagged stays flagged.
C5_FlagUntouched ==
  [][\A r \in Reqs :
       /\ (Steps(r, "validate") /\
           Abs((now - req[r].timerSession.start_time) - req[r].elapsed) <= 5000)
          => req'[r].pc = "heartbeat"
       /\ (req[r].pc \in {"heartbeat", "check"} \cup CompletionPath
           /\ req'[r] # req[r])
          => \A s \in timer_sessions :
               Row(timer_sessions', s.id).suspicious = s.suspicious
    ]_vars

C5_Witness ==
  \E r \in Reqs :
    /\ req[r].pc = "check"
    /\ req[r].timeDrift = 5000
    /\ req[r].timerSession.suspicious
    /\ Row(timer_sessions, req[r].timerSession.id).suspicious
    /\ Row(timer_sessions, req[r].timerSession.id).last_heartbeat
         = req[r].last_heartbeat

\* C6: a heartbeat within the tolerance completes the session (completed
\* and end_time written, a completed response whose elapsed is
\* serverElapsed) exactly when serverElapsed >= duration * 1000; no session
\* is completed before its duration has passed on the server's clock.
C6_CompletesIffDue ==
  /\ [](\A s \in timer_sessions :
          s.completed => /\ s.end_time # NULL
                         /\ s.end_time - s.start_time >= s.duration * 1000)
  /\ [][\A r \in Reqs :
          /\ Steps(r, "validate")
             => req'[r].serverElapsed = now - req[r].timerSession.start_time
          /\ Steps(r, "check")
             => /\ (req'[r].pc = "complete")
                     = (req[r].serverElapsed
                          >= req[r].timerSession.duration * 1000)
                /\ req'[r].pc \in {"complete", "done"}
                /\ req'[r].pc = "done" => req'[r].resp.kind = "active"
                /\ UNCHANGED timer_sessions
          /\ Steps(r, "complete")
             => /\ Row(timer_sessions', req[r].timerSession.id).completed
                /\ Row(timer_sessions', req[r].timerSession.id).end_time
                     = req[r].end_time
                /\ req[r].end_time # NULL
          /\ Steps(r, "streakWrite")
             => /\ req'[r].pc = "done"
                /\ req'[r].resp.kind = "completed"
                /\ req'[r].resp.elapsed = req[r].serverElapsed
       ]_vars

C6_Witness ==
  \E r \in Reqs :
    /\ req[r].pc = "done"
    /\ req[r].resp.kind = "completed"
    /\ req[r].resp.elapsed = 5000
    /\ \E s \in timer_sessions :
         s.completed /\ s.duration = 5 /\ s.end_time # NULL

\* C7: a heartbeat within the tolerance whose serverElapsed is below
\* duration * 1000 answers active with remaining = duration * 1000 -
\* serverElapsed > 0 and the server time, and writes no completion.
C7_ActiveRemaining ==
  [][\A r \in Reqs :
       (Steps(r, "check") /\
        req[r].serverElapsed < req[r].timerSession.duration * 1000)
       => /\ req'[r].pc = "done"
          /\ req'[r].resp.kind = "active"
          /\ req'[r].resp.remaining
               = req[r].timerSession.duration * 1000 - req[r].serverElapsed
          /\ req'[r].resp.remaining > 0
          /\ req'[r].resp.elapsed = req[r].serverElapsed
          /\ req'[r].resp.serverTime = now
          /\ UNCHANGED <<timer_sessions, streaks, completeTimerCalls>>
    ]_vars

C7_Witness ==
  \E r \in Reqs :
    /\ req[r].pc = "done"
    /\ req[r].resp.kind = "active"
    /\ req[r].resp.remaining = 5000
    /\ \E s \in timer_sessions :
         s.duration = 5 /\ ~s.completed /\ s.heartbeat_count = 1

\* the response to a user without an uncompleted session
NoActiveTimer == ErrorResponse("No active timer session", 404)

\* the request that invocation r holds passed the authentication check
Authorized(r) ==
  ~(req[r].pc = "done" /\ req[r].resp = ErrorResponse("Unauthorized", 401))

SecondCall(r) == Began(r) /\ req'[r].late >= 2

\* C9: two heartbeats in sequence on an already completed session return
\* the same completed result, and the streak update runs in neither.
C9_SameCompletedResult ==
  [][\A r \in Reqs :
       SecondCall(r)
       => /\ req'[r].pc = "done"
          /\ req'[r].resp = req[r].resp
          /\ req'[r].resp.kind = "completed"
          /\ UNCHANGED <<streaks, completeTimerCalls>>
    ]_vars

\* C9 (amended): two such heartbeats return the same result, which is the
\* 404 error 'No active timer session', and the streak update runs in
\* neither.
C9_SameErrorResult ==
  [][\A r \in Reqs :
       SecondCall(r)
       => /\ req'[r].pc = "done"
          /\ req'[r].resp = req[r].resp
          /\ req'[r].resp.kind = "error"
          /\ req'[r].resp.http = 404
          /\ UNCHANGED <<streaks, completeTimerCalls>>
    ]_vars

C9_Witness ==
  \E r \in Reqs :
    /\ req[r].pc = "done"
    /\ req[r].late = 2
    /\ req[r].resp = NoActiveTimer
    /\ AllCompleted(req[r].userId)
    /\ completeTimerCalls[1] = 1

\* C10: a streak update that reads last_completed one calendar day before
\* its completion date writes current_streak = old + 1, longest_streak =
\* max(old longest, new current) and last_completed = the completion date.
C10_ContinueStreak ==
  [][\A r \in Reqs :
       (Steps(r, "streakWrite") /\ req[r].streak # NoStreak
        /\ req[r].streak.last_completed = req[r].today - 1)
       => \E k \in StreakRows(streaks', req[r].userId) :
            /\ StreakRows(streaks', req[r].userId) = {k}
            /\ k.current_streak = req[r].streak.current_streak + 1
            /\ k.longest_streak
                 = Max(req[r].streak.longest_streak, k.current_streak)
            /\ k.last_completed = req[r].today
    ]_vars

C10_Witness ==
  /\ \E r \in Reqs : req[r].pc = "done" /\ req[r].resp.kind = "completed"
  /\ completeTimerCalls[1] = 1
  /\ streaks = {[user_id |-> "u1", current_streak |-> 2,
                 longest_streak |-> 2, last_completed |-> Day0 - 1]}

\* C11: a streak update for a user whose last_completed is the date of the
\* completion writes nothing: current_streak, longest_streak and
\* last_completed stay as they are, however many completions that day has.
C11_SameDayNoOp ==
  [][\A u \in Owners :
       (nreq' = nreq + 1 /\
        \E k \in StreakRows(streaks, u) :
           k.last_completed = now \div 86400000)
       => streaks' = streaks
    ]_vars

C11_Witness ==
  /\ nreq = 3
  /\ ticks = 0
  /\ streaks = {[user_id |-> "u1", current_streak |-> 2,
                 longest_streak |-> 3, last_completed |-> Now0 \div 86400000]}

\* C12: a streak update for a user whose last_completed is neither the
\* date of the completion nor the day before it (two or more days back, or
\* a later date) writes current_streak = 1 and last_completed = that date
\* and leaves longest_streak as it is.
C12_ResetOnGap ==
  [][\A u \in Owners : \A k \in StreakRows(streaks, u) :
       (nreq' = nreq + 1 /\
        k.last_completed # now \div 86400000 /\
        k.last_completed # (now \div 86400000) - 1)
       => StreakRows(streaks', u) =
            {[user_id |-> u, current_streak |-> 1,
              longest_streak |-> k.longest_streak,
              last_completed |-> now \div 86400000]}
    ]_vars

\* reached by a reset alone: no row starts on this date, an insert writes
\* longest_streak = 1 and a continued streak has current_streak >= 2
C12_Witness ==
  /\ ticks = 2
  /\ now = Now0 + 2 * 86400000
  /\ streaks = {[user_id |-> "u1", current_streak |-> 1,
                 longest_streak |-> 3, last_completed |-> now \div 86400000]}

\* C13: a streak update for a user for whom it found no streak row leaves
\* exactly one row for that user, with current_streak = 1, longest_streak
\* = 1 and last_completed = the date of the completion; no user ever has
\* more than one row.
C13_CreatesRecord ==
  /\ [](\A u \in Users : Cardinality(StreakRows(streaks, u)) <= 1)
  /\ [][\A r \in Reqs :
          (Steps(r, "streakWrite") /\ req[r].streak = NoStreak)
          => StreakRows(streaks', req[r].userId) =
               {[user_id |-> req[r].userId, current_streak |-> 1,
                 longest_streak |-> 1, last_completed |-> req[r].today]}
       ]_vars

\* C14: in every reachable state every streak row has longest_streak >=
\* current_streak >= 1, whatever the interleaving of the completions.
C14_LongestAtLeastCurrent ==
  \A k \in streaks : k.longest_streak >= k.current_streak /\ k.current_streak >= 1

\* a row written by a continued streak and then by a reset
C14_Witness ==
  /\ \A r \in Reqs : req[r].pc = "done" /\ req[r].resp.kind = "completed"
  /\ \E k \in streaks : k.longest_streak = 2 /\ k.current_streak = 1

\* C15: the longest_streak of a user never decreases, in any sequence and
\* any interleaving of streak updates.
C15_LongestNeverDecreases ==
  [][\A k \in streaks : \A x \in StreakRows(streaks', k.user_id) :
       x.longest_streak >= k.longest_streak]_vars

\* C16: the last_completed of a user never moves to an earlier date, in
\* any sequence and any interleaving of streak updates.
C16_LastCompletedNeverRegresses ==
  [][\A k \in streaks : \A x \in StreakRows(streaks', k.user_id) :
       x.last_completed >= k.last_completed]_vars

\* streaks.timezone of a user; no statement of the handler reads or writes
\* the column
TimezoneOf(u) == "Etc/GMT-1"

\* the offset of a zone from UTC in ms
OffsetMs(tz) == IF tz = "Etc/GMT-1" THEN 3600 * MsPerSecond ELSE 0

\* the calendar date of time t in zone tz
CalendarDate(t, tz) == DateOf(t + OffsetMs(tz))

\* C17: the date the streak update works with is the calendar date of the
\* session's end_time in the user's recorded timezone, not the UTC date.
C17_LocalCompletionDate ==
  [][\A r \in Reqs :
       Steps(r, "streakDates")
       => /\ req'[r].today =
               CalendarDate(req[r].end_time, TimezoneOf(req[r].userId))
          /\ req'[r].yesterday = req'[r].today - 1
    ]_vars

\* C18: once a session is completed no field of its row is written again,
\* in any interleaving of heartbeats, also by a heartbeat that selected the
\* session before another one completed it.
C18_CompletedImmutable ==
  [][\A s \in timer_sessions : s.completed => s \in timer_sessions']_vars

\* C19: the heartbeat_count of a session never decreases, and each
\* heartbeat within the tolerance raises it by one and writes the server
\* time it read as last_heartbeat, in any interleaving.
C19_CountsEveryHeartbeat ==
  [][/\ \A s \in timer_sessions :
          OrZero(Row(timer_sessions', s.id).heartbeat_count)
            >= OrZero(s.heartbeat_count)
     /\ \A r \in Reqs :
          Steps(r, "heartbeat")
          => LET id == req[r].timerSession.id IN
               /\ Row(timer_sessions', id).heartbeat_count =
                    OrZero(Row(timer_sessions, id).heartbeat_count) + 1
               /\ Row(timer_sessions', id).last_heartbeat =
                    req[r].last_heartbeat
    ]_vars

\* C20: no heartbeat and no completion changes start_time or duration of
\* a session; the only columns they write are completed, suspicious,
\* last_heartbeat, heartbeat_count, drift_amount and end_time.
C20_OnlyListedFields ==
  [][\A s \in timer_sessions :
       LET x == Row(timer_sessions', s.id) IN
         /\ x.start_time = s.start_time
         /\ x.duration = s.duration
         /\ x.id = s.id
         /\ x.user_id = s.user_id
         /\ x.validated = s.validated
    ]_vars

\* C20 (amended): start_time and duration (and id, user_id) of a session
\* never change; the columns written are the listed ones and validated.
C20_StartAndDurationKept ==
  [][\A s \in timer_sessions :
       \E x \in timer_sessions' :
         /\ x.id = s.id
         /\ x.start_time = s.start_time
         /\ x.duration = s.duration
         /\ x.user_id = s.user_id
         /\ \A y \in timer_sessions' : y.id = s.id => y = x
    ]_vars

\* a session that the drift update, the heartbeat update and the
\* completion have all written
C20_Witness ==
  \E s \in timer_sessions :
    /\ s.completed /\ s.validated /\ s.end_time # NULL
    /\ s.suspicious /\ s.drift_amount = 5001
    /\ s.heartbeat_count = 1 /\ s.last_heartbeat # NULL
    /\ s.start_time = Now0 /\ s.duration = 5


\* invocation r works on a row that was flagged when it was selected
OnFlagged(r) ==
  /\ req[r].pc \notin {"idle", "done"}
  /\ req[r].timerSession.suspicious

\* C21: a flagged session is not terminated: a heartbeat of its owner is
\* still taken to validation with the flagged row; within the tolerance it
\* goes on to the heartbeat update; with serverElapsed >= duration * 1000
\* it enters completeTimer, which marks the row completed and goes on to
\* the streak update, whose write ends in the completed response.
C21_FlaggedStillCompletes ==
  [][\A r \in Reqs :
       /\ (Began(r) /\ Authorized(r)' /\
           \E s \in Uncompleted(timer_sessions, req'[r].userId) : s.suspicious)
          => /\ req'[r].pc = "validate"
             /\ req'[r].timerSession \in
                  Uncompleted(timer_sessions, req'[r].userId)
       /\ (Steps(r, "validate") /\ OnFlagged(r) /\
           Abs((now - req[r].timerSession.start_time) - req[r].elapsed)
             <= 5000)
          => req'[r].pc = "heartbeat"
       /\ (Steps(r, "check") /\ OnFlagged(r) /\
           req[r].serverElapsed >= req[r].timerSession.duration * 1000)
          => req'[r].pc = "complete"
       /\ (Steps(r, "complete") /\ OnFlagged(r))
          => /\ Row(timer_sessions', req[r].timerSession.id).completed
             /\ req'[r].pc = "streakSelect"
       /\ (Steps(r, "streakWrite") /\ OnFlagged(r))
          => /\ req'[r].pc = "done"
             /\ req'[r].resp.kind = "completed"
    ]_vars

C21_Witness ==
  \E r \in Reqs, s \in timer_sessions :
    /\ req[r].pc = "streakWrite"
    /\ req[r].timerSession.id = s.id
    /\ req[r].timerSession.suspicious
    /\ req[r].timerSession.drift_amount = 5001
    /\ s.completed /\ s.suspicious /\ s.heartbeat_count = 1
    /\ completeTimerCalls[s.id] = 1


\* C24: a heartbeat whose userId is not the authenticated caller's, or that
\* has no authenticated caller, is answered 401 Unauthorized and changes no
\* session and no streak row.
C24_UnauthorizedChangesNothing ==
  [][\A r \in Reqs :
       Began(r)
       => \A u \in Owners, c \in Users \cup {NoCaller},
             i \in SessionIds, e \in ClientElapsed, t \in ClientTimes :
            (req'[r].userId = u /\ (c = NoCaller \/ c # u) /\
             Begin(r, u, c, i, e, t))
            => /\ req'[r].pc = "done"
               /\ req'[r].resp = ErrorResponse("Unauthorized", 401)
               /\ UNCHANGED <<timer_sessions, streaks, completeTimerCalls>>
    ]_vars

C24_Witness ==
  /\ nreq = 1
  /\ req[1].pc = "done"
  /\ req[1].userId = "u1"
  /\ req[1].resp = ErrorResponse("Unauthorized", 401)
  /\ \E s \in timer_sessions :
       /\ s.user_id = "u1" /\ ~s.completed /\ ~s.suspicious
       /\ s.heartbeat_count = NULL
       /\ now - s.start_time >= s.duration * 1000


\* C25: a heartbeat of an authenticated user who has no uncompleted
\* session, none at all or completed ones only, is answered with a client
\* error, 404 'No active timer session', and changes no session and no
\* streak row.
C25_NoActiveSessionError ==
  [][\A r \in Reqs :
       (Began(r) /\ Authorized(r)' /\
        Uncompleted(timer_sessions, req'[r].userId) = {})
       => /\ req'[r].pc = "done"
          /\ req'[r].resp.kind = "error"
          /\ req'[r].resp.http \in 400..499
          /\ req'[r].resp.error = "No active timer session"
          /\ UNCHANGED <<timer_sessions, streaks, completeTimerCalls>>
    ]_vars

C25_Witness ==
  /\ timer_sessions = {}
  /\ nreq = 1
  /\ req[1].pc = "done"
  /\ req[1].userId = "u1"
  /\ req[1].resp.kind = "error"
  /\ req[1].resp.http = 404


\* C27: device time changes do not affect the streak: in two runs with the
\* same server clock and the same stored sessions, fed heartbeats that
\* differ only in the client-supplied elapsed time, the streak table is the
\* same after every heartbeat.
C27_StreakIndependentOfClient == streaks = twin.streaks


\* ---- failures of the streak update -------------------------------------
\* One request at a time, and the database calls of updateStreak may fail.
\* The client reports a failed query in the error field of its result, the
\* field the handler reads at the select on timer_sessions; a call may
\* also reject, which is what the handler's catch is there for.

\* updateStreak: the insert or update returns { error }; only data is ever
\* destructured, so the handler goes on to the completed response
StreakWriteError(r) ==
  /\ req[r].pc = "streakWrite"
  /\ req' = [req EXCEPT ![r] =
       Done(req[r].userId, CompletedResponse(req[r].serverElapsed),
            req[r].late)]
  /\ UNCHANGED <<now, ticks, timer_sessions, streaks, nreq,
                 completeTimerCalls, twin, agent>>

\* a call of updateStreak rejects: the exception leaves updateStreak and
\* completeTimer and is caught by the handler
StreakThrows(r) ==
  /\ req[r].pc \in {"streakSelect", "streakWrite"}
  /\ req' = [req EXCEPT ![r] =
       Done(req[r].userId, ErrorResponse("Internal server error", 500),
            req[r].late)]
  /\ UNCHANGED <<now, ticks, timer_sessions, streaks, nreq,
                 completeTimerCalls, twin, agent>>

NextFail ==
  \/ Tick
  \/ \E u \in Owners, d \in Durations : StartSession(u, d)
  \/ \E u \in Owners, c \in Users \cup {NoCaller},
        i \in SessionIds, e \in ClientElapsed, t \in ClientTimes :
       Begin(1, u, c, i, e, t)
  \/ Validate(1)
  \/ Flag(1)
  \/ Warn(1)
  \/ Heartbeat(1)
  \/ Check(1)
  \/ Complete(1)
  \/ StreakSelect(1)
  \/ StreakDates(1)
  \/ StreakWrite(1)
  \/ StreakWriteError(1)
  \/ StreakThrows(1)

SpecFail == Init /\ [][NextFail]_vars

\* C22: when the streak update fails after the session was marked
\* completed, the session stays completed and the request answers with an
\* error.
C22_FailureReported ==
  [][\A r \in Reqs :
       (StreakWriteError(r) \/ StreakThrows(r))
       => /\ Row(timer_sessions', req[r].timerSession.id).completed
          /\ req'[r].pc = "done"
          /\ req'[r].resp.kind = "error"
    ]_vars

\* C23: the streak update of every completed session is applied in the
\* end, also when a call of the streak update failed: at the latest when
\* a further heartbeat of the owner, sent after the completion, has been
\* answered, the owner's streak row records a completion on or after the
\* date the session ended.
C23_StreakApplied ==
  \A r \in Reqs :
    (req[r].pc = "done" /\ req[r].late >= 1)
    => \A s \in timer_sessions :
         (s.completed /\ s.user_id = req[r].userId)
         => \E k \in streaks :
              /\ k.user_id = s.user_id
              /\ k.last_completed >= DateOf(s.end_time)


\* ---- the service worker: message, interval and sync handlers -----------
\* The callbacks of the worker run on one thread, and the IndexedDB
\* requests they wait for are served in the order issued, so a handler is
\* not overtaken by one started later: each is one action. now is the
\* device's Date.now() here.

\* sendHeartbeat: the worker after the call; fetch is not awaited, and
\* without a network it rejects into the catch. session is book-keeping:
\* the START_TIMER whose session the heartbeat is for
sendHeartbeat(a, userId, t) ==
  LET state == getTimerState(a)
      elapsed == Minus(Number(t), Prop(state, "startTime"))
  IN IF Falsy(state) THEN a
     ELSE IF a.online
     THEN [a EXCEPT !.requests =
             Append(@, [userId |-> userId, elapsed |-> Json(elapsed),
                        session |-> a.started])]
     ELSE a

\* startHeartbeat: a new interval whose handle overwrites the variable,
\* then the initial heartbeat
startHeartbeat(a, userId, t) ==
  sendHeartbeat([a EXCEPT !.heartbeatInterval = a.started + 1,
                          !.intervals = @ \cup {a.started + 1},
                          !.started = @ + 1],
                userId, t)

\* stopHeartbeat: clears the interval whose handle is in the variable
stopHeartbeat(a) ==
  IF a.heartbeatInterval # NULL
  THEN [a EXCEPT !.intervals = @ \ {a.heartbeatInterval},
                 !.heartbeatInterval = NULL]
  ELSE a

\* the data the page posts with START_TIMER
StartData(d, t) ==
  [duration |-> d, startTime |-> t, serverTime |-> t, userId |-> "demo-user"]

\* the worker after the message START_TIMER: saveTimerState, then
\* startHeartbeat
onStartTimer(a, data, t) ==
  startHeartbeat([a EXCEPT !.store = TimerRecord(data, t),
                           !.stopped = FALSE],
                 data.userId, t)

\* the worker after the message STOP_TIMER: clearTimerState, then
\* stopHeartbeat
onStopTimer(a) ==
  stopHeartbeat([a EXCEPT !.store = NoRecord, !.stopped = TRUE])

\* message START_TIMER
START_TIMER(data) ==
  /\ agent.started < MaxStarts
  /\ Len(agent.requests) < MaxInflight
  /\ agent' = onStartTimer(agent, data, now)
  /\ UNCHANGED <<now, ticks, timer_sessions, streaks, req, nreq,
                 completeTimerCalls, twin>>

\* message STOP_TIMER, posted by pauseTimer and resetTimer
STOP_TIMER ==
  /\ agent' = onStopTimer(agent)
  /\ UNCHANGED <<now, ticks, timer_sessions, streaks, req, nreq,
                 completeTimerCalls, twin>>

\* an interval that was not cleared fires: sendHeartbeat(userId)
IntervalFires(i) ==
  /\ i \in agent.intervals
  /\ Len(agent.requests) < MaxInflight
  /\ agent' = sendHeartbeat(agent, "demo-user", now)
  /\ UNCHANGED <<now, ticks, timer_sessions, streaks, req, nreq,
                 completeTimerCalls, twin>>

\* a heartbeat fetch settles, with a response or with a network error
FetchSettles ==
  /\ agent.requests # <<>>
  /\ agent' = [agent EXCEPT !.requests = Tail(@)]
  /\ UNCHANGED <<now, ticks, timer_sessions, streaks, req, nreq,
                 completeTimerCalls, twin>>

\* the network goes away or comes back
NetworkChanges ==
  /\ agent.flips < MaxFlips
  /\ agent' = [agent EXCEPT !.online = ~@, !.flips = @ + 1]
  /\ UNCHANGED <<now, ticks, timer_sessions, streaks, req, nreq,
                 completeTimerCalls, twin>>

\* syncTimerCompletion: the worker after the call. The fetch of
\* /api/timer/complete is awaited; any response resolves it, a success
\* (ok) or an error status, and the record is cleared; a network error is
\* caught and logged. The promise the function returns is fulfilled on
\* every path.
syncTimerCompletion(a, t, ok) ==
  LET state == getTimerState(a)
      elapsed == Minus(Number(t), Prop(state, "startTime"))
      settled == [a EXCEPT !.waitUntil = "fulfilled"]
  IN IF Falsy(state) THEN settled
     ELSE IF GreaterEq(elapsed, Prop(state, "duration"))
     THEN IF a.online
          THEN [settled EXCEPT !.completions = @ + 1,
                               !.accepted = @ + (IF ok THEN 1 ELSE 0),
                               !.store = NoRecord]
          ELSE settled
     ELSE settled

\* the browser stops the idle worker and starts it again for a later
\* event: the script runs from the top, so its variable and its intervals
\* are gone and pending fetches are dropped; the store is kept. Nothing at
\* the top level of the script reads the store or starts a heartbeat.
WorkerRestarts ==
  /\ agent.restarts < MaxRestarts
  /\ agent' = [agent EXCEPT !.heartbeatInterval = NULL, !.intervals = {},
                            !.requests = <<>>, !.restarts = @ + 1]
  /\ UNCHANGED <<now, ticks, timer_sessions, streaks, req, nreq,
                 completeTimerCalls, twin>>

\* the browser dispatches a sync event with the tag 'timer-complete'
SyncEvent(ok) ==
  /\ agent.syncs < MaxSyncs
  /\ agent' = [syncTimerCompletion(agent, now, ok) EXCEPT !.syncs = @ + 1]
  /\ UNCHANGED <<now, ticks, timer_sessions, streaks, req, nreq,
                 completeTimerCalls, twin>>

NextAgent ==
  \/ Tick
  \/ \E d \in TimerSeconds : START_TIMER(StartData(d, now))
  \/ STOP_TIMER
  \/ \E i \in 1..MaxStarts : IntervalFires(i)
  \/ FetchSettles
  \/ NetworkChanges
  \/ \E ok \in BOOLEAN : SyncEvent(ok)
  \/ WorkerRestarts

\* the worker as installed, for either outcome of a read of the store
InitAgent ==
  /\ now = Now0
  /\ ticks = 0
  /\ timer_sessions = {}
  /\ streaks = {}
  /\ req = [r \in Reqs |-> Idle]
  /\ nreq = 0
  /\ completeTimerCalls = [i \in 1..MaxSessions |-> 0]
  /\ twin = NoTwin
  /\ agent \in {[NoAgent EXCEPT !.reads = m] : m \in ReadModes}

SpecAgent == InitAgent /\ [][NextAgent]_vars

\* the local elapsed time of the stored session has reached its duration
LocallyDue ==
  /\ agent.store # NoRecord
  /\ now - agent.store.startTime >= agent.store.duration * 1000

\* C28: the worker never has two heartbeat requests in flight at once: a
\* send that has not finished when the next one is due is abandoned first.
C28_OneInFlight ==
  \A i, j \in 1..Len(agent.requests) :
    agent.requests[i].session = agent.requests[j].session => i = j

\* C29: once STOP_TIMER has been handled, no heartbeat is sent until a
\* later START_TIMER is handled, whatever messages came before.
C29_NoHeartbeatAfterStop ==
  [][(agent.stopped /\ agent'.stopped)
     => Len(agent'.requests) <= Len(agent.requests)]_vars

\* C30: a completion that became due locally while the network was away
\* is never dropped: every sync event handled while the stored session is
\* due and the network is still away leaves the record in place and the
\* sync to be retried, that is, the promise handed to waitUntil rejects.
C30_CompletionSyncRetried ==
  [][(agent'.syncs = agent.syncs + 1 /\ LocallyDue /\ ~agent.online)
     => /\ agent'.store = agent.store
        /\ agent'.waitUntil = "rejected"]_vars


\* C26: completed is terminal: no step sets a completed session back to
\* uncompleted. The steps are those of the server, taken for any request
\* at any time: heartbeats, and the completion sync, a heartbeat under
\* another path; STOP_TIMER, sent on pause and reset, sends no request.
C26_CompletedTerminal ==
  [][\A s \in timer_sessions :
       s.completed
       => \E x \in timer_sessions' : x.id = s.id /\ x.completed]_vars

C26_Witness ==
  \E s \in timer_sessions, r \in Reqs, q \in Reqs :
    /\ s.completed /\ s.suspicious
    /\ req[r].pc = "warn"
    /\ req[r].timerSession.id = s.id
    /\ ~req[r].timerSession.completed
    /\ req[q].pc = "done"
    /\ req[q].late = 1


\* C36: a heartbeat classified as drift (drift > 5000 ms) takes the drift
\* branch and never the heartbeat update: its steps leave heartbeat_count
\* and last_heartbeat of every row as they were and write only suspicious
\* and drift_amount, of the row it selected.
C36_DriftWritesFlagOnly ==
  [][\A r \in Reqs :
       /\ (Steps(r, "validate") /\
           Abs((now - req[r].timerSession.start_time) - req[r].elapsed) > 5000)
          => req'[r].pc \notin {"heartbeat", "check"}
       /\ (req[r].pc \in {"flag", "warn"} /\ req'[r] # req[r])
          => /\ req'[r].pc \in {"warn", "done"}
             /\ \A s \in timer_sessions :
                  LET x == Row(timer_sessions', s.id) IN
                    /\ x.heartbeat_count = s.heartbeat_count
                    /\ x.last_heartbeat = s.last_heartbeat
                    /\ x = [s EXCEPT !.suspicious = x.suspicious,
                                     !.drift_amount = x.drift_amount]
                    /\ s.id # req[r].timerSession.id => x = s
    ]_vars

C36_Witness ==
  \E r \in Reqs, s \in timer_sessions :
    /\ req[r].pc = "done"
    /\ req[r].resp.kind = "warning"
    /\ nreq = 1
    /\ s.suspicious /\ s.drift_amount = req[r].resp.drift
    /\ s.heartbeat_count = NULL /\ s.last_heartbeat = NULL

\* C37: drift_amount of a session is the drift of the drifting heartbeat
\* written last: the drift update stores its drift, whatever was stored,
\* and every other step (heartbeat update, completion, streak update)
\* leaves drift_amount of every row unchanged.
C37_LastDriftStored ==
  [][/\ \A r \in Reqs :
          Steps(r, "flag")
          => /\ req[r].timeDrift > 5000
             /\ Row(timer_sessions', req[r].timerSession.id).drift_amount
                  = req[r].timeDrift
     /\ (\A r \in Reqs : ~Steps(r, "flag"))
        => \A s \in timer_sessions :
             Row(timer_sessions', s.id).drift_amount = s.drift_amount
    ]_vars

C37_Witness ==
  \E r \in Reqs, q \in Reqs, s \in timer_sessions :
    /\ req[r].pc = "done" /\ req[r].resp.kind = "warning"
    /\ req[q].pc = "done" /\ req[q].resp.kind = "warning"
    /\ req[q].resp.drift < req[r].resp.drift
    /\ req[q].resp.serverTime > req[r].resp.serverTime
    /\ s.drift_amount = req[q].resp.drift


\* C39: a heartbeat works only on the session named by the sessionId it
\* carries: the row it selects, and so the row it flags, counts a heartbeat
\* on or completes, has that id.
C39_OnlyNamedSession ==
  [][\A r \in Reqs :
       Began(r)
       => \A u \in Owners, c \in Users \cup {NoCaller},
             i \in SessionIds, e \in ClientElapsed, t \in ClientTimes :
            (Begin(r, u, c, i, e, t) /\ req'[r].pc = "validate")
            => req'[r].timerSession.id = i
    ]_vars


C32_ResumedAfterKill ==
  [][(agent'.syncs = agent.syncs + 1 /\ agent.restarts >= 1 /\
      agent.store # NoRecord /\ agent.intervals = {} /\ agent.online)
     => IF LocallyDue
        THEN agent'.completions = agent.completions + 1
        ELSE agent'.intervals # {}]_vars

\* C33: the worker holds one record: START_TIMER puts the new session's
\* data in place of what was there and STOP_TIMER removes it; START_TIMER
\* sends one heartbeat at once and leaves one interval, one heartbeat every
\* 30 seconds, scheduled.
C33_OneRecordOneCadence ==
  [][/\ \A d \in TimerSeconds :
          START_TIMER(StartData(d, now))
          => /\ agent'.store = TimerRecord(StartData(d, now), now)
             /\ agent.online
                  => Len(agent'.requests) = Len(agent.requests) + 1
             /\ Cardinality(agent'.intervals) = 1
     /\ STOP_TIMER => agent'.store = NoRecord
    ]_vars

\* C34: after any sequence of START_TIMER and STOP_TIMER the worker has at
\* most one heartbeat interval scheduled, and none once STOP_TIMER was
\* handled.
C34_OneInterval ==
  /\ Cardinality(agent.intervals) <= 1
  /\ agent.stopped => agent.intervals = {}

WithPage(a, p) == [a EXCEPT !.page = p]

\* navigator.serviceWorker.ready resolves: workerRef.current is set
WorkerReady ==
  /\ ~agent.page.workerRef
  /\ agent' = WithPage(agent, [agent.page EXCEPT !.workerRef = TRUE])
  /\ UNCHANGED <<now, ticks, timer_sessions, streaks, req, nreq,
                 completeTimerCalls, twin>>

\* a duration button, shown while nothing runs and nothing is left
setDuration(m) ==
  /\ ~agent.page.isRunning
  /\ agent.page.timeLeft = 0
  /\ agent.page.duration # m
  /\ agent' = WithPage(agent, [agent.page EXCEPT !.duration = m])
  /\ UNCHANGED <<now, ticks, timer_sessions, streaks, req, nreq,
                 completeTimerCalls, twin>>

\* button Start Focus Session, shown while nothing runs and nothing is left
startTimer ==
  /\ ~agent.page.isRunning
  /\ agent.page.timeLeft = 0
  /\ agent.started < MaxStarts
  /\ Len(agent.requests) < MaxInflight
  /\ LET seconds == agent.page.duration * 60
         posted == IF agent.page.workerRef
                   THEN onStartTimer(agent, StartData(seconds, now), now)
                   ELSE agent
     IN  agent' = WithPage(posted,
                    [agent.page EXCEPT
                       !.timeLeft = seconds,
                       !.isRunning = TRUE,
                       !.timerState = [startTime |-> now,
                                       duration |-> seconds,
                                       isRunning |-> TRUE]])
  /\ UNCHANGED <<now, ticks, timer_sessions, streaks, req, nreq,
                 completeTimerCalls, twin>>

\* button Pause, shown while isRunning
pauseTimer ==
  /\ agent.page.isRunning
  /\ LET posted == IF agent.page.workerRef THEN onStopTimer(agent)
                   ELSE agent
     IN  agent' = WithPage(posted,
                    [agent.page EXCEPT !.isRunning = FALSE,
                                       !.timerState = NoItem])
  /\ UNCHANGED <<now, ticks, timer_sessions, streaks, req, nreq,
                 completeTimerCalls, twin>>

\* button Resume, shown while paused with time left: setIsRunning(true)
Resume ==
  /\ ~agent.page.isRunning
  /\ agent.page.timeLeft > 0
  /\ agent' = WithPage(agent, [agent.page EXCEPT !.isRunning = TRUE])
  /\ UNCHANGED <<now, ticks, timer_sessions, streaks, req, nreq,
                 completeTimerCalls, twin>>

\* button Reset, shown next to Resume
resetTimer ==
  /\ ~agent.page.isRunning
  /\ agent.page.timeLeft > 0
  /\ LET posted == IF agent.page.workerRef THEN onStopTimer(agent)
                   ELSE agent
     IN  agent' = WithPage(posted,
                    [agent.page EXCEPT !.isRunning = FALSE,
                                       !.timeLeft = 0,
                                       !.timerState = NoItem])
  /\ UNCHANGED <<now, ticks, timer_sessions, streaks, req, nreq,
                 completeTimerCalls, twin>>

\* time passes; the countdown effect takes the seconds off timeLeft while
\* isRunning, and at 0 handleComplete sets isRunning false
SecondsPass(s) ==
  /\ ticks < MaxTicks
  /\ now' = now + s * MsPerSecond
  /\ ticks' = ticks + 1
  /\ agent' = WithPage(agent,
                IF agent.page.isRunning /\ agent.page.timeLeft > 0
                THEN IF agent.page.timeLeft <= s
                     THEN [agent.page EXCEPT !.timeLeft = 0,
                                             !.isRunning = FALSE]
                     ELSE [agent.page EXCEPT !.timeLeft = @ - s]
                ELSE agent.page)
  /\ UNCHANGED <<timer_sessions, streaks, req, nreq, completeTimerCalls,
                 twin>>

\* the page is loaded again: state and refs start over, localStorage and
\* the worker stay, and the mount effect restores a running countdown
Reload ==
  /\ agent.page.reloads < MaxReloads
  /\ LET state == agent.page.timerState
         elapsed == (now - state.startTime) \div MsPerSecond
         remaining == Max(0, state.duration - elapsed)
         fresh == [NoPage EXCEPT !.timerState = state,
                                 !.reloads = agent.page.reloads + 1]
     IN  agent' = WithPage(agent,
                    IF state # NoItem /\ remaining > 0 /\ state.isRunning
                    THEN [fresh EXCEPT
                            !.timeLeft = remaining,
                            !.isRunning = TRUE,
                            !.duration = (state.duration + 59) \div 60]
                    ELSE fresh)
  /\ UNCHANGED <<now, ticks, timer_sessions, streaks, req, nreq,
                 completeTimerCalls, twin>>

NextPage ==
  \/ \E s \in PageSteps : SecondsPass(s)
  \/ WorkerReady
  \/ \E m \in PageMinutes : setDuration(m)
  \/ startTimer
  \/ pauseTimer
  \/ Resume
  \/ resetTimer
  \/ Reload
  \/ \E i \in 1..MaxStarts : IntervalFires(i)
  \/ FetchSettles

InitPage == InitAgent

SpecPage == InitPage /\ [][NextPage]_vars

\* C38: whenever the page's countdown is running, isRunning with time
\* left, the worker holds a session record and has a heartbeat interval
\* scheduled for it, after every sequence of Start, Pause, Resume, Reset
\* and reload.
C38_RunningPageHasAgent ==
  (agent.page.isRunning /\ agent.page.timeLeft > 0)
    => (agent.store # NoRecord /\ agent.intervals # {})


=============================================================================
